---- MODULE Spec2Model ----
(***************************************************************************)
(* Model of segmentation_models_pytorch/encoders/efficientnetst.py:        *)
(* the encoder registry, EfficientNetSTEncoder.forward and                 *)
(* EfficientNetSTEncoder.load_state_dict.                                  *)
(*                                                                         *)
(* A tensor is abstracted to [val, out]: `val` stands for its element      *)
(* values, `out` for its number of output channels (dimension 0 of a       *)
(* convolution weight).  Tensors live in a heap keyed by storage, and a    *)
(* module's weight is a reference into the heap, so that two parameters    *)
(* sharing one storage are distinguishable from two equal copies.          *)
(* A feature map is abstracted to [c, h, w].                               *)
(***************************************************************************)
EXTENDS Integers, Sequences, FiniteSets, TLC

VARIABLES enc, state_dict, op, outcome, features, arg

vars == <<enc, state_dict, op, outcome, features, arg>>

\* ---------------------------------------------------------------- bounds
\* tensor contents range over 0..MaxWeight
MaxWeight == 1
\* at most MaxConstruct completed weight loadings are explored per encoder
MaxConstruct == 2
\* input shapes (height, width) explored
InputShapes == {<<2, 2>>, <<16, 16>>, <<64, 64>>, <<16, 64>>}

\* ------------------------------------------------------ program constants
\* depth=5 is the constructor's default and the deepest pyramid
MaxDepth == 5
\* Conv2d(3, 32, kernel_size=3, stride=1, bias=False)
ConvStInChannels == 3
ConvStOutChannels == 32
ConvStStride == 1
\* nn.BatchNorm2d(num_features=32, ...)
BnStNumFeatures == 32

\* initial element value of a newly constructed convolution weight
ConvInitWeight == 0
\* initial value of a newly constructed normalization layer's weight
BnInitWeight == 1

\* value of an attribute that has not been set
None == [id |-> 0]
Weights == 0..MaxWeight

\* ------------------------------------------------------------- registry
\* A registry whose b3 entry omits the input-resolution channel count.
efficient_netst_encoders_b3_short ==
  ("efficientnetst-b0" :>
     [out_channels |-> <<3, 32, 24, 40, 112, 320>>,
      stage_idxs |-> <<3, 5, 9>>, model_name |-> "efficientnet-b0"]) @@
  ("efficientnetst-b3" :>
     [out_channels |-> <<40, 32, 48, 136, 384>>,
      stage_idxs |-> <<5, 8, 18>>, model_name |-> "efficientnet-b3"])

efficient_netst_encoders ==
  ("efficientnetst-b0" :>
     [out_channels |-> <<3, 32, 24, 40, 112, 320>>,
      stage_idxs |-> <<3, 5, 9>>, model_name |-> "efficientnet-b0"]) @@
  ("efficientnetst-b1" :>
     [out_channels |-> <<3, 32, 24, 40, 112, 320>>,
      stage_idxs |-> <<5, 8, 16>>, model_name |-> "efficientnet-b1"]) @@
  ("efficientnetst-b2" :>
     [out_channels |-> <<3, 32, 24, 48, 120, 352>>,
      stage_idxs |-> <<5, 8, 16>>, model_name |-> "efficientnet-b2"]) @@
  ("efficientnetst-b3" :>
     [out_channels |-> <<3, 40, 32, 48, 136, 384>>,
      stage_idxs |-> <<5, 8, 18>>, model_name |-> "efficientnet-b3"]) @@
  ("efficientnetst-b4" :>
     [out_channels |-> <<3, 48, 32, 56, 160, 448>>,
      stage_idxs |-> <<6, 10, 22>>, model_name |-> "efficientnet-b4"]) @@
  ("efficientnetst-b5" :>
     [out_channels |-> <<3, 48, 40, 64, 176, 512>>,
      stage_idxs |-> <<8, 13, 27>>, model_name |-> "efficientnet-b5"]) @@
  ("efficientnetst-b6" :>
     [out_channels |-> <<3, 56, 40, 72, 200, 576>>,
      stage_idxs |-> <<9, 15, 31>>, model_name |-> "efficientnet-b6"]) @@
  ("efficientnetst-b7" :>
     [out_channels |-> <<3, 64, 48, 80, 224, 640>>,
      stage_idxs |-> <<11, 18, 38>>, model_name |-> "efficientnet-b7"])

Variants == DOMAIN efficient_netst_encoders

\* --------------------------------------------- backbone (base feature net)
\* Number of blocks in each of the seven backbone stages, per base model.
StageRepeats ==
  ("efficientnet-b0" :> <<1, 2, 2, 3, 3, 4, 1>>) @@
  ("efficientnet-b1" :> <<2, 3, 3, 4, 4, 5, 2>>) @@
  ("efficientnet-b2" :> <<2, 3, 3, 4, 4, 5, 2>>) @@
  ("efficientnet-b3" :> <<2, 3, 3, 5, 5, 6, 2>>) @@
  ("efficientnet-b4" :> <<2, 4, 4, 6, 6, 8, 2>>) @@
  ("efficientnet-b5" :> <<3, 5, 5, 7, 7, 9, 3>>) @@
  ("efficientnet-b6" :> <<3, 6, 6, 8, 8, 11, 3>>) @@
  ("efficientnet-b7" :> <<4, 7, 7, 10, 10, 13, 4>>)

\* Stride of the first block of each backbone stage (the rest have stride 1).
StageStrides == <<1, 2, 2, 2, 1, 2, 1>>

RECURSIVE SumTo(_, _)
SumTo(s, n) == IF n = 0 THEN 0 ELSE s[n] + SumTo(s, n - 1)

\* Number of blocks of each base model.
BlockCounts ==
  [v \in DOMAIN StageRepeats |-> SumTo(StageRepeats[v], Len(StageRepeats[v]))]

\* len(self._blocks) of base model v
NumBlocks(v) == BlockCounts[v]

\* Stride of every block (0-based index) of each base model: the first
\* block of a stage has the stage's stride, the others stride 1.
BlockStrides ==
  [v \in DOMAIN StageRepeats |->
     [idx \in 0..(BlockCounts[v] - 1) |->
        IF \E s \in 1..Len(StageStrides) : SumTo(StageRepeats[v], s - 1) = idx
          THEN StageStrides[CHOOSE s \in 1..Len(StageStrides) :
                              SumTo(StageRepeats[v], s - 1) = idx]
          ELSE 1]]

\* Stride of block idx (0-based) of base model v.
BlockStride(v, idx) == BlockStrides[v][idx]

\* Stride of the backbone's primary stem convolution.
ConvStemStride == 2

\* The two outcomes "same padding" has in the convolution factory's builds.
\* "dynamic": the padding fits the actual input (or was fixed for an odd
\* nominal size), so a stride-2 convolution yields ceil(n/2).  "static":
\* the padding was fixed once for an even nominal image size, so a stride-2
\* convolution yields floor(n/2) and cannot be applied to a size-1 input.
PaddingPolicies == {"dynamic", "static"}

\* Output size of a same-padded convolution of the given stride on an input
\* of size n; 0 stands for "the kernel does not fit the padded input", which
\* the framework reports as a RuntimeError.
SamePadOut(n, stride, pad) ==
  IF pad = "dynamic" THEN (n + stride - 1) \div stride
  ELSE IF n < stride THEN 0 ELSE n \div stride

\* ------------------------------------------------------------ constructor
\* Base constructor: builds the backbone of model_name (its primary stem
\* convolution holds freshly initialised weights), takes the end of the
\* block list as the last stage boundary and stores depth and channel
\* metadata.  No auxiliary stem exists yet.
EfficientNetEncoder_init(stage_idxs, out_channels, model_name, depth) ==
  [ model_name |-> model_name,
    stage_idxs |-> Append(stage_idxs, NumBlocks(model_name)),
    out_channels |-> out_channels,
    depth |-> depth,
    heap |-> ("stem" :> [val |-> ConvInitWeight, out |-> out_channels[2]]),
    conv_stem |-> [weight |-> "stem"],
    conv_stem_st |-> None,
    bn0_st |-> None,
    nconstructed |-> 0 ]

\* def __init__(self, stage_idxs, out_channels, model_name, depth=5)
EfficientNetSTEncoder_init(stage_idxs, out_channels, model_name, depth) ==
  EfficientNetEncoder_init(stage_idxs, out_channels, model_name, depth)

\* ---------------------------------------------------------------- forward
\* The feature that block output x becomes when it is appended after feats:
\* its channel count is the one the registry declares for that position.
BlockFeature(self, x, feats) ==
  [c |-> self.out_channels[Len(feats) + 1], h |-> x.h, w |-> x.w]

RECURSIVE BlockLoop(_, _, _, _, _, _)
\* for idx, block in enumerate(self._blocks): ...
BlockLoop(self, idx, x, skip_connection_idx, feats, pad) ==
  IF idx >= NumBlocks(self.model_name)
    THEN [outcome |-> "ok", features |-> feats]
    ELSE
      LET stride == BlockStride(self.model_name, idx)
          x1 == [c |-> x.c, h |-> SamePadOut(x.h, stride, pad),
                 w |-> SamePadOut(x.w, stride, pad)]
      IN IF x1.h = 0 \/ x1.w = 0
           THEN [outcome |-> "RuntimeError", features |-> <<>>]
         ELSE IF skip_connection_idx + 1 > Len(self.stage_idxs)
           THEN [outcome |-> "IndexError", features |-> <<>>]
         ELSE IF idx = self.stage_idxs[skip_connection_idx + 1] - 1
           THEN LET feats1 == Append(feats, BlockFeature(self, x1, feats))
                IN IF (skip_connection_idx + 1) + 1 = self.depth
                     THEN [outcome |-> "ok", features |-> feats1]
                     ELSE BlockLoop(self, idx + 1, x1,
                                    skip_connection_idx + 1, feats1, pad)
         ELSE BlockLoop(self, idx + 1, x1, skip_connection_idx, feats, pad)

\* The body of forward once self._conv_stem_st and self._bn0_st resolve.
forward_features(self, x, pad) ==
  LET w_st == self.heap[self.conv_stem_st.weight]
      f0 == [c |-> w_st.out,
             h |-> SamePadOut(x.h, self.conv_stem_st.stride, pad),
             w |-> SamePadOut(x.w, self.conv_stem_st.stride, pad)]
      w_stem == self.heap[self.conv_stem.weight]
      x1 == [c |-> w_stem.out, h |-> SamePadOut(x.h, ConvStemStride, pad),
             w |-> SamePadOut(x.w, ConvStemStride, pad)]
      feats0 == <<f0>>
      feats1 == IF self.depth > 0 THEN Append(feats0, x1) ELSE feats0
  IN IF f0.h = 0 \/ f0.w = 0 \/ f0.c # self.bn0_st.num_features
       THEN [outcome |-> "RuntimeError", features |-> <<>>]
     ELSE IF self.depth > 0 /\ (x1.h = 0 \/ x1.w = 0)
       THEN [outcome |-> "RuntimeError", features |-> <<>>]
     ELSE IF self.depth > 1
       THEN BlockLoop(self, 0, x1, 0, feats1, pad)
     ELSE [outcome |-> "ok", features |-> feats1]

\* A forward that falls back to the raw input as feature 0 while the
\* auxiliary stem is missing (the base class's behaviour).
forward_fallback(self, x, pad) ==
  IF self.conv_stem_st = None \/ self.bn0_st = None
    THEN [outcome |-> "ok", features |-> <<x>>]
    ELSE forward_features(self, x, pad)

\* def forward(self, x)
forward(self, x, pad) ==
  IF self.conv_stem_st = None \/ self.bn0_st = None
    THEN [outcome |-> "AttributeError", features |-> <<>>]
    ELSE forward_features(self, x, pad)

\* ------------------------------------------------------- load_state_dict
FcKeys == {"_fc.bias", "_fc.weight"}
\* parameters of the backbone (primary stem and what follows it)
BackboneKeys == {"_conv_stem.weight", "_bn0.weight"}
\* parameters the auxiliary stem registers once it exists
AuxKeys == {"_conv_stem_st.weight", "_bn0_st.weight"}
Keys == FcKeys \cup BackboneKeys \cup AuxKeys

\* dict.pop(k) of a present key
Pop(d, k) == [x \in (DOMAIN d) \ {k} |-> d[x]]

\* keys of the encoder's own parameters
ModuleKeys(self) ==
  BackboneKeys \cup (IF self.conv_stem_st = None THEN {} ELSE AuxKeys)

\* The base class's loading call.  Under strict loading a mapping with
\* missing or unexpected keys is refused and the encoder is left as it was;
\* otherwise every tensor whose key is present is copied, in place, into the
\* parameter of that name, in registration order.
Base_load_state_dict(self, sd, strict) ==
  LET missing == ModuleKeys(self) \ DOMAIN sd
      unexpected == (DOMAIN sd) \ ModuleKeys(self)
      h1 == IF "_conv_stem.weight" \in DOMAIN sd
              THEN [self.heap EXCEPT
                      ![self.conv_stem.weight].val = sd["_conv_stem.weight"]]
              ELSE self.heap
      h2 == IF self.conv_stem_st # None /\ "_conv_stem_st.weight" \in DOMAIN sd
              THEN [h1 EXCEPT ![self.conv_stem_st.weight].val =
                                 sd["_conv_stem_st.weight"]]
              ELSE h1
      bn == IF self.bn0_st # None /\ "_bn0_st.weight" \in DOMAIN sd
              THEN [self.bn0_st EXCEPT !.weight = sd["_bn0_st.weight"]]
              ELSE self.bn0_st
  IN IF strict /\ (missing \cup unexpected) # {}
       THEN [outcome |-> "RuntimeError", self |-> self]
       ELSE [outcome |-> "ok",
             self |-> [self EXCEPT !.heap = h2, !.bn0_st = bn]]

\* An auxiliary convolution built with the primary stem's stride.
NewConv2d_stride2(self) ==
  [ heap |-> ("st" :> [val |-> ConvInitWeight, out |-> ConvStOutChannels])
               @@ self.heap,
    module |-> [weight |-> "st", in_channels |-> ConvStInChannels,
                stride |-> ConvStemStride, id |-> self.nconstructed + 1] ]

\* Conv2d(3, 32, kernel_size=3, stride=1, bias=False): a new module whose
\* weight is a new tensor in a storage of its own.
NewConv2d(self) ==
  [ heap |-> ("st" :> [val |-> ConvInitWeight, out |-> ConvStOutChannels])
               @@ self.heap,
    module |-> [weight |-> "st", in_channels |-> ConvStInChannels,
                stride |-> ConvStStride, id |-> self.nconstructed + 1] ]

\* self._conv_stem_st.weight.data = self._conv_stem.weight.data
\* The auxiliary weight is rebound to the tensor of the primary stem.
AssignWeightData(self, conv) ==
  [ heap |-> conv.heap,
    module |-> [conv.module EXCEPT !.weight = self.conv_stem.weight] ]

\* nn.BatchNorm2d(num_features=32, momentum=bn_mom, eps=bn_eps)
NewBatchNorm2d(self) ==
  [num_features |-> BnStNumFeatures, weight |-> BnInitWeight,
   id |-> self.nconstructed + 1]

\* The statements of load_state_dict that follow the base loading call:
\* they build the auxiliary stem and bind it to the encoder.
ConstructAuxStem(self) ==
  LET conv == AssignWeightData(self, NewConv2d(self))
  IN [self EXCEPT !.heap = conv.heap,
                  !.conv_stem_st = conv.module,
                  !.bn0_st = NewBatchNorm2d(self),
                  !.nconstructed = @ + 1]

\* state_dict.pop(k) if k in state_dict.keys() else print(...)
PopIfPresent(sd, k) == IF k \in DOMAIN sd THEN Pop(sd, k) ELSE sd

\* A load_state_dict that pops both head keys unconditionally.
load_state_dict_pop_always(self, sd, strict) ==
  IF "_fc.bias" \notin DOMAIN sd
    THEN [outcome |-> "KeyError", self |-> self, state_dict |-> sd]
  ELSE IF "_fc.weight" \notin DOMAIN sd
    THEN [outcome |-> "KeyError", self |-> self,
          state_dict |-> Pop(sd, "_fc.bias")]
  ELSE LET sd2 == Pop(Pop(sd, "_fc.bias"), "_fc.weight")
           base == Base_load_state_dict(self, sd2, strict)
       IN IF base.outcome # "ok"
            THEN [outcome |-> base.outcome, self |-> base.self,
                  state_dict |-> sd2]
            ELSE [outcome |-> "ok", self |-> ConstructAuxStem(base.self),
                  state_dict |-> sd2]

\* A load_state_dict that strips the head keys from a copy of the mapping.
load_state_dict_on_copy(self, sd, strict) ==
  LET sd2 == PopIfPresent(PopIfPresent(sd, "_fc.bias"), "_fc.weight")
      base == Base_load_state_dict(self, sd2, strict)
  IN IF base.outcome # "ok"
       THEN [outcome |-> base.outcome, self |-> base.self, state_dict |-> sd]
       ELSE [outcome |-> "ok", self |-> ConstructAuxStem(base.self),
             state_dict |-> sd]

\* A load_state_dict that builds the auxiliary stem before it delegates to
\* the base class.
load_state_dict_aux_first(self, sd, strict) ==
  LET sd2 == PopIfPresent(PopIfPresent(sd, "_fc.bias"), "_fc.weight")
      built == ConstructAuxStem(self)
      base == Base_load_state_dict(self, sd2, strict)
  IN IF base.outcome # "ok"
       THEN [outcome |-> base.outcome, self |-> built, state_dict |-> sd2]
       ELSE [outcome |-> "ok", self |-> ConstructAuxStem(base.self),
             state_dict |-> sd2]

\* def load_state_dict(self, state_dict, **kwargs)
load_state_dict(self, sd, strict) ==
  LET sd1 == PopIfPresent(sd, "_fc.bias")
      sd2 == PopIfPresent(sd1, "_fc.weight")
      base == Base_load_state_dict(self, sd2, strict)
  IN IF base.outcome # "ok"
       THEN [outcome |-> base.outcome, self |-> base.self, state_dict |-> sd2]
       ELSE [outcome |-> "ok", self |-> ConstructAuxStem(base.self),
             state_dict |-> sd2]

\* ------------------------------------------------------- derived values
Ready(self) == self.conv_stem_st # None /\ self.bn0_st # None
StemVal(self) == self.heap[self.conv_stem.weight].val
AuxVal(self) == self.heap[self.conv_stem_st.weight].val

\* ---------------------------------------------------------------- inputs
\* a mapping over key set K all of whose tensors hold w
MkStateDict(K, w) == [k \in K |-> w]
\* The key sets of the mappings a caller passes: a pretrained state with
\* both, one or none of the classification-head keys; a malformed one that
\* lacks the primary stem's weight, with and without the head keys; and a
\* checkpoint saved from a Ready encoder (it holds the auxiliary stem's
\* keys), with and without the head keys.
KeySets ==
  {(BackboneKeys \cup FcKeys) \ F : F \in SUBSET FcKeys}
    \cup {(BackboneKeys \cup F) \ {"_conv_stem.weight"} : F \in {{}, FcKeys}}
    \cup {BackboneKeys \cup AuxKeys \cup F : F \in {{}, FcKeys}}
StateDicts == {MkStateDict(K, w) : K \in KeySets, w \in Weights}
Inputs == {[c |-> ConvStInChannels, h |-> hw[1], w |-> hw[2]] : hw \in InputShapes}

\* --------------------------------------------------------- state machine
Init ==
  /\ \E name \in Variants, depth \in 0..MaxDepth :
        LET p == efficient_netst_encoders[name]
        IN enc = EfficientNetSTEncoder_init(p.stage_idxs, p.out_channels,
                                            p.model_name, depth)
  /\ state_dict = <<>>
  /\ op = "__init__"
  /\ outcome = "ok"
  /\ features = <<>>
  /\ arg = <<>>

\* encoder.load_state_dict(sd, strict=strict), sd the caller's mapping
Load(sd, strict) ==
  /\ enc.nconstructed < MaxConstruct
  /\ LET r == load_state_dict(enc, sd, strict)
     IN /\ enc' = r.self
        /\ state_dict' = r.state_dict
        /\ outcome' = r.outcome
  /\ op' = "load_state_dict"
  /\ features' = <<>>
  /\ arg' = [state_dict |-> sd, strict |-> strict]

\* encoder.forward(x) / encoder(x), in a build with padding policy pad
Forward(x, pad) ==
  /\ LET r == forward(enc, x, pad)
     IN /\ outcome' = r.outcome
        /\ features' = r.features
  /\ op' = "forward"
  /\ arg' = [x |-> x, pad |-> pad]
  /\ UNCHANGED <<enc, state_dict>>

\* An in-place update of the primary stem convolution's weight
\* (an optimizer step on _conv_stem.weight).
WriteConvStem(v) ==
  /\ enc' = [enc EXCEPT !.heap[enc.conv_stem.weight].val = v]
  /\ op' = "write_conv_stem"
  /\ outcome' = "ok"
  /\ features' = <<>>
  /\ arg' = [val |-> v, stem_before |-> StemVal(enc),
             st_before |-> IF Ready(enc) THEN AuxVal(enc) ELSE None]
  /\ UNCHANGED state_dict

\* An in-place update of the auxiliary convolution's weight
\* (an optimizer step on _conv_stem_st.weight).
WriteConvStemSt(v) ==
  /\ Ready(enc)
  /\ enc' = [enc EXCEPT !.heap[enc.conv_stem_st.weight].val = v]
  /\ op' = "write_conv_stem_st"
  /\ outcome' = "ok"
  /\ features' = <<>>
  /\ arg' = [val |-> v, stem_before |-> StemVal(enc),
             st_before |-> AuxVal(enc)]
  /\ UNCHANGED state_dict

Next ==
  \/ \E sd \in StateDicts, strict \in BOOLEAN : Load(sd, strict)
  \/ \E x \in Inputs, pad \in PaddingPolicies : Forward(x, pad)
  \/ \E v \in Weights : WriteConvStem(v)
  \/ \E v \in Weights : WriteConvStemSt(v)

Spec == Init /\ [][Next]_vars

TypeOK ==
  /\ op \in {"__init__", "load_state_dict", "forward", "write_conv_stem",
              "write_conv_stem_st"}
  /\ outcome \in {"ok", "AttributeError", "RuntimeError"}
  /\ enc.depth \in 0..MaxDepth
  /\ enc.nconstructed \in 0..MaxConstruct
  /\ Ready(enc) <=> enc.nconstructed > 0

\* ================================================================ claims
Pow2(n) == IF n = 0 THEN 1 ELSE IF n = 1 THEN 2 ELSE IF n = 2 THEN 4
           ELSE IF n = 3 THEN 8 ELSE IF n = 4 THEN 16 ELSE 32

ForwardReturned == op = "forward" /\ outcome = "ok"

\* C1: on a Ready encoder of any registry variant and any depth d in 0..5,
\* forward (on the documented 64x64 input) returns exactly d+1 feature
\* tensors without raising.
C1_ForwardReturnsDepthPlusOne ==
  (op = "forward" /\ Ready(enc) /\ arg.x.h = 64 /\ arg.x.w = 64)
    => (outcome = "ok" /\ Len(features) = enc.depth + 1)

\* C2: after load_state_dict completes the auxiliary convolution's weights
\* equal the primary stem's weights and are held in distinct storage: a
\* later write to the weights of one stem leaves the other's unchanged.
C2_AuxWeightsAreADeepCopy ==
  /\ (op = "load_state_dict" /\ outcome = "ok")
       => /\ AuxVal(enc) = StemVal(enc)
          /\ enc.conv_stem_st.weight # enc.conv_stem.weight
  /\ (op = "write_conv_stem" /\ Ready(enc)) => AuxVal(enc) = arg.st_before
  /\ (op = "write_conv_stem_st") => StemVal(enc) = arg.stem_before

\* C3: on an encoder on which load_state_dict has never completed, every
\* call to forward fails with an attribute-resolution error and returns no
\* feature list, whatever the depth (depth 0 included).
C3_ForwardBeforeLoadFails ==
  enc.nconstructed = 0 =>
    /\ \A x \in Inputs, pad \in PaddingPolicies :
         forward(enc, x, pad) = [outcome |-> "AttributeError", features |-> <<>>]
    /\ op = "forward" => (outcome = "AttributeError" /\ features = <<>>)

C3_Witness ==
  /\ op = "forward" /\ enc.nconstructed = 0 /\ enc.depth = 0
  /\ outcome = "AttributeError"

\* the mapping sd with the classification-head keys it lacks put back
WithFcKeys(sd) ==
  [k \in (DOMAIN sd) \cup FcKeys |-> IF k \in DOMAIN sd THEN sd[k] ELSE 0]

\* C4: load_state_dict on a pretrained state that lacks one or both
\* classification-head keys does not raise on their account, and leaves
\* the encoder in the same state, with the same outcome, as loading the
\* same pretrained state with those keys present; a complete pretrained
\* state loads without raising.
C4_MissingHeadKeysTolerated ==
  [][ op' = "load_state_dict" =>
        LET sd == arg'.state_dict
            r == load_state_dict(enc, WithFcKeys(sd), arg'.strict)
        IN /\ outcome' = r.outcome
           /\ enc' = r.self
           /\ state_dict' = r.state_dict
           /\ ((DOMAIN sd) \ FcKeys = ModuleKeys(enc)) => outcome' = "ok"
    ]_vars

C4_Witness ==
  /\ op = "load_state_dict" /\ outcome = "ok"
  /\ (DOMAIN arg.state_dict) \cap FcKeys = {}
  /\ BackboneKeys \subseteq DOMAIN arg.state_dict
  /\ arg.strict
  /\ Ready(enc)

\* C5: for every registry variant, after load_state_dict completes the
\* auxiliary convolution maps 3 input channels to exactly 32 output
\* channels, matching the 32 channels of the auxiliary normalization
\* layer, so feature 0 of forward has 32 channels.
C5_AuxStemHas32Channels ==
  Ready(enc) =>
    /\ enc.conv_stem_st.in_channels = 3
    /\ enc.heap[enc.conv_stem_st.weight].out = 32
    /\ enc.bn0_st.num_features = 32
    /\ ForwardReturned => features[1].c = 32

\* C6: for every entry of the encoder registry,
\* len(out_channels) = len(stage_idxs) + 3 and out_channels[0] = 3.
C6_RegistryShape ==
  /\ \A name \in Variants :
       LET p == efficient_netst_encoders[name]
       IN /\ Len(p.out_channels) = Len(p.stage_idxs) + 3
          /\ p.out_channels[1] = 3
  /\ enc.out_channels[1] = 3

C6_Witness ==
  /\ enc.model_name = "efficientnet-b7"
  /\ enc.out_channels = efficient_netst_encoders["efficientnetst-b7"].out_channels
  /\ op = "__init__"

\* the ordering C7 speaks of, for a returned feature list
ResolutionsOrdered ==
  /\ features[1].h = arg.x.h /\ features[1].w = arg.x.w
  /\ enc.depth > 0 =>
       (2 * features[2].h = arg.x.h /\ 2 * features[2].w = arg.x.w)
  /\ \A i \in 2..Len(features) :
       features[i].h < features[i - 1].h /\ features[i].w < features[i - 1].w

C8_FailedLoadLeavesEncoder ==
  [][ (op' = "load_state_dict" /\ outcome' # "ok") =>
        /\ outcome' =
             Base_load_state_dict(enc, state_dict', arg'.strict).outcome
        /\ enc' = enc
        /\ enc.nconstructed = 0 =>
             \A x \in Inputs, pad \in PaddingPolicies :
               forward(enc', x, pad).outcome = "AttributeError"
    ]_vars

C8_Witness ==
  /\ op = "load_state_dict" /\ outcome = "RuntimeError"
  /\ "_conv_stem.weight" \notin DOMAIN arg.state_dict
  /\ arg.strict
  /\ enc.nconstructed = 0 /\ ~Ready(enc)

\* C9: under any sequence of load_state_dict and forward calls the
\* auxiliary stem is built at most once: once the encoder is Ready no
\* later call replaces or re-initializes its auxiliary convolution or
\* normalization layer.
C9_AuxStemBuiltOnce ==
  [][ Ready(enc) => /\ enc'.conv_stem_st.id = enc.conv_stem_st.id
                    /\ enc'.bn0_st.id = enc.bn0_st.id
                    /\ enc'.nconstructed = enc.nconstructed ]_vars

\* C10: load_state_dict mutates the caller's mapping: after the call,
\* whether base loading succeeded or failed, the mapping holds neither
\* _fc.bias nor _fc.weight and every other key with its value unchanged.
C10_CallerMappingStripped ==
  op = "load_state_dict" =>
    /\ DOMAIN state_dict = (DOMAIN arg.state_dict) \ FcKeys
    /\ \A k \in DOMAIN state_dict : state_dict[k] = arg.state_dict[k]

C10_Witness ==
  /\ op = "load_state_dict" /\ outcome = "RuntimeError"
  /\ FcKeys \subseteq DOMAIN arg.state_dict
  /\ DOMAIN state_dict = BackboneKeys \ {"_conv_stem.weight"}

====
